---------------------------- MODULE Spec2Model ----------------------------
(***************************************************************************)
(* Host monitor (src/main.py): CPU alert watchdog with hysteresis and      *)
(* cooldown, safeguarded process termination, the per-user /topcpu cache   *)
(* behind /terminate, the process sampler, the CPU history window and its  *)
(* lock, and the scheduling of the tasks on the event loop.                *)
(*                                                                         *)
(* Time is counted in whole seconds; CPU percentages are whole percents.   *)
(***************************************************************************)
EXTENDS Integers, Sequences, FiniteSets, TLC

VARIABLES
    clock,          \* time.time()
    procs,          \* the OS process table: pid -> process or NoProc
    nextId,         \* identity (creation stamp) of the next spawned process
    \* ---- CPUWatchdog
    cooldown,       \* self.cooldown
    webhook,        \* self.webhook is non-empty
    script,         \* the readings psutil.cpu_percent(interval=1.0) will return
    pos,            \* number of readings consumed so far (the cycle number)
    wd_pc,          \* position of CPUWatchdog.run
    total,          \* local `total` of the current cycle
    over_counter,   \* self._over_counter
    last_alert_ts,  \* self._last_alert_ts
    top3,           \* local `top3` of the current cycle
    cycles,         \* history: what each cycle read and decided
    sink,           \* history: every call of _send_webhook_alert
    \* ---- Bot: /topcpu, /terminate, the cache
    cache,          \* self._last_topcpu_by_user
    stored,         \* history: per owner, the entry of its latest store
    sampling,       \* /topcpu calls inside snapshot_top_processes: owner -> primed handles
    req,            \* history: the latest /terminate request, what the caller had
                    \* stored by then, and what the request did (of a direct call
                    \* of safe_terminate_pid: the time it was made)
    ops,            \* number of commands and clock ticks so far
    osEvents,       \* number of process exits and starts so far
    \* ---- safe_terminate_pid (runs in a worker thread)
    t_pc,           \* position inside safe_terminate_pid
    t_pid,          \* argument pid
    t_p,            \* local `p`: the psutil.Process handle
    t_name,         \* local `name`
    t_exc,          \* the exception in flight, or NoExc
    t_result,       \* the returned (ok, message)
    t_trace,        \* history: the OS calls made by this call, in order
    signals,        \* history: every signal delivered to a process
    \* ---- CPU_HISTORY, its collector and the /status display
    history,        \* CPU_HISTORY
    appends,        \* history: number of CPU_HISTORY.append calls so far
    readings,       \* the values psutil.cpu_percent(interval=None) returns, in turn
    rec_pc,         \* position of Bot._cpu_history_collector
    lock,           \* holder of CPU_HISTORY_LOCK, or "none"
    access,         \* history: the latest access to CPU_HISTORY and the lock's holder then
    stats,          \* what _build_status_embed last computed from its copy
    \* ---- snapshot_top_processes
    cpus,           \* psutil.cpu_count(logical=True), 0 standing for None
    s_pc,           \* position inside snapshot_top_processes
    s_n,            \* argument n
    s_seen,         \* the handles process_iter yielded
    s_primed,       \* local `procs`: the handles primed before the wait
    s_read,         \* history: the handles whose second cpu_percent succeeded,
                    \* and the raw value each returned
    s_rows          \* the returned rows

wdVars == <<cooldown, webhook, script, pos, wd_pc, total, over_counter,
            last_alert_ts, top3, cycles, sink>>
feVars == <<cache, stored, sampling, req, ops>>
tVars  == <<t_pc, t_pid, t_p, t_name, t_exc, t_result, t_trace, signals>>
osVars == <<procs, nextId, osEvents>>
hVars  == <<history, appends, readings, rec_pc, lock, access, stats>>
sVars  == <<cpus, s_pc, s_n, s_seen, s_primed, s_read, s_rows>>
vars   == <<clock, osVars, wdVars, feVars, tVars, hVars, sVars>>

-----------------------------------------------------------------------------
(* Bounds of the model *)

\* readings per run of the watchdog
MaxCycles == 5
\* time.time() when the program starts (seconds since the epoch: far beyond any cooldown)
BootTime == 1000
\* commands and clock ticks per run of the front end
MaxOps == 3
\* process exits and starts per run
MaxOsEvents == 2
\* largest in-range index a caller types
MaxIndex == 4
\* largest n snapshot_top_processes is called with
MaxTopN == 4
\* appends of the history collector while the other tasks run
MaxLoopAppends == 2
\* appends per run of the history collector: enough to fill CPU_HISTORY and evict
MaxAppends == 152

(* Program constants *)

Threshold == 90
SampleSeconds == 1
CpuReadSeconds == 1
IdleSeconds == 4
SinkTimeout == 10
CacheTTL == 600
RangeMin == 1
RangeMax == 10
TopN == 10
AlertTopN == 3
HistoryCap == 150

SYSTEM_NAMES == {"System Idle Process", "System", "Registry", "MemCompression"}
PROTECTED_PIDS == {0, 4}

-----------------------------------------------------------------------------
(* The OS process table *)

NoProc == [name |-> "", id |-> 0, cpu |-> 0]
PIDS == {4, 7, 8}
Names == {"System", "chrome.exe", "python.exe"}

Alive(pid) == pid \in PIDS /\ procs[pid] # NoProc

\* a psutil.Process handle names one process: its pid and its creation stamp
Handle(pid) == [pid |-> pid, id |-> procs[pid].id, name |-> procs[pid].name]
NoHandle == [pid |-> 0, id |-> 0, name |-> ""]
Running(h) == h.pid \in PIDS /\ procs[h.pid].id = h.id /\ h.id # 0

InitialProcs ==
    [pid \in PIDS |->
        CASE pid = 4 -> [name |-> "System", id |-> 1, cpu |-> 0]
          [] pid = 7 -> [name |-> "chrome.exe", id |-> 2, cpu |-> 60]
          [] OTHER   -> [name |-> "Registry", id |-> 3, cpu |-> 10]]

-----------------------------------------------------------------------------
(* snapshot_top_processes *)

\* the sort is ascending
RECURSIVE SortAsc(_)
SortAsc(rows) ==
    IF rows = <<>> THEN <<>>
    ELSE LET i == CHOOSE k \in 1..Len(rows) :
                    /\ \A j \in 1..Len(rows) : rows[j].cpu >= rows[k].cpu
                    /\ \A j \in 1..(k - 1) : rows[j].cpu > rows[k].cpu
             rest == [j \in 1..(Len(rows) - 1) |-> IF j < i THEN rows[j] ELSE rows[j + 1]]
         IN <<rows[i]>> \o SortAsc(rest)

\* rows.sort(key=cpu, reverse=True): repeatedly take the first row of highest cpu
RECURSIVE SortDesc(_)
SortDesc(rows) ==
    IF rows = <<>> THEN <<>>
    ELSE LET i == CHOOSE k \in 1..Len(rows) :
                    /\ \A j \in 1..Len(rows) : rows[j].cpu <= rows[k].cpu
                    /\ \A j \in 1..(k - 1) : rows[j].cpu < rows[k].cpu
             rest == [j \in 1..(Len(rows) - 1) |-> IF j < i THEN rows[j] ELSE rows[j + 1]]
         IN <<rows[i]>> \o SortDesc(rest)

\* rows[:n]
Take(rows, n) == SubSeq(rows, 1, IF n < Len(rows) THEN n ELSE Len(rows))

\* cpu_count = psutil.cpu_count(logical=True) or 1
CpuCount(c) == IF c = 0 THEN 1 ELSE c

\* max(0.0, raw / cpu_count); the raw readings of the model are whole multiples
\* of every core count it uses, so the quotient is exact
Normalize(raw, c) ==
    LET v == raw \div CpuCount(c) IN IF v > 0 THEN v ELSE 0

\* (p.info.get("name") or f"pid-{p.pid}")[:64]; no name of the model is longer
RowName(h) == IF h.name = "" THEN "pid-" \o ToString(h.pid) ELSE h.name

\* rows are appended in the order process_iter yielded the processes (pid
\* order); the second cpu_percent reads the counters of whatever process holds
\* the pid by then
RECURSIVE RowsOf(_, _)
RowsOf(handles, readable) ==
    IF handles = {} THEN <<>>
    ELSE LET h == CHOOSE x \in handles : \A y \in handles : x.pid <= y.pid
         IN (IF h \in readable
                THEN <<[pid |-> h.pid, name |-> RowName(h),
                        cpu |-> Normalize(procs[h.pid].cpu, cpus)]>>
                ELSE <<>>) \o RowsOf(handles \ {h}, readable)

\* the re-read, sort and cut of snapshot_top_processes: `primed` are the handles
\* primed before the wait, `readable` those whose second cpu_percent succeeds
SnapshotRows(primed, readable, n) == Take(SortDesc(RowsOf(primed, readable)), n)

-----------------------------------------------------------------------------
(* CPUWatchdog *)

\* readings a script is made of: below, at and above the threshold
ReadingVals == {50, 90, 95}
\* the end-to-end sequence of the specification's test list
E2EScript == <<92, 93, 91, 89, 96, 97>>
\* the hysteresis sequence of the specification's test list
HysteresisScript == <<95, 95, 50, 95, 95>>
Scripts == [1..MaxCycles -> ReadingVals] \cup {E2EScript, HysteresisScript}
\* constructor arguments: cooldown (the Bot passes 300)
Cooldowns == {5, 60, 300}
\* how long the webhook post may take: at once, or until its timeout
SendDelays == {0, SinkTimeout}

\* total >= self.threshold
OverThreshold(t) == t >= Threshold

\* a dip below the threshold takes one off the counter instead of clearing it
NextCounterDecrement(c, t) == IF t >= Threshold THEN c + 1 ELSE IF c > 0 THEN c - 1 ELSE 0

\* self._over_counter += 1, or self._over_counter = 0
NextCounter(c, t) == IF OverThreshold(t) THEN c + 1 ELSE 0

\* the hysteresis is off by one: a single reading over the threshold is enough
AlertDueFirstReading(c, now, last, cd) == c >= 1 /\ now - last > cd

\* the cooldown is not consulted
AlertDueNoCooldown(c, now, last, cd) == c >= 2

\* the hysteresis asks for three readings in a row
AlertDueThirdReading(c, now, last, cd) == c >= 3 /\ now - last > cd

\* the counter must stand at exactly two, as if it had to build up again
AlertDueExactlyTwo(c, now, last, cd) == c = 2 /\ now - last > cd

\* self._over_counter >= 2 and (time.time() - self._last_alert_ts) > self.cooldown
AlertDue(c, now, last, cd) == c >= 2 /\ now - last > cd

\* the handles process_iter yields and cpu_percent primes
Primable == {Handle(pid) : pid \in {q \in PIDS : Alive(q)}}

InitWatchdog ==
    /\ cooldown \in Cooldowns
    /\ webhook \in BOOLEAN
    /\ script \in Scripts
    /\ pos = 0
    /\ wd_pc = "read"
    /\ total = 0
    /\ over_counter = 0
    /\ last_alert_ts = 0
    /\ top3 = <<>>
    /\ cycles = <<>>
    /\ sink = <<>>

\* one pass of the loop up to the first await: the blocking one-second read,
\* the counter update and the alert decision
WD_ReadAt(pc) ==
    /\ wd_pc = pc
    /\ pos < Len(script)
    /\ LET t    == script[pos + 1]
           now  == clock + CpuReadSeconds
           cnt  == NextCounter(over_counter, t)
           fire == OverThreshold(t) /\ AlertDue(cnt, now, last_alert_ts, cooldown)
       IN /\ total' = t
          /\ pos' = pos + 1
          /\ clock' = now
          /\ over_counter' = cnt
          /\ cycles' = Append(cycles, [reading |-> t, counter |-> cnt, now |-> now,
                                       last |-> last_alert_ts, fired |-> fire])
          /\ wd_pc' = IF fire THEN "snapshot" ELSE "idle"
    /\ UNCHANGED <<cooldown, webhook, script, last_alert_ts, top3, sink>>
    /\ UNCHANGED <<osVars, feVars, tVars>>
    /\ UNCHANGED <<hVars, sVars>>

\* the whole of it as one step
WD_Read == WD_ReadAt("read")

\* psutil.cpu_percent(interval=1.0) has been called: it sleeps for the second
\* inside the call, on the thread of the event loop
WD_Enter ==
    /\ wd_pc = "read"
    /\ pos < Len(script)
    /\ wd_pc' = "reading"
    /\ UNCHANGED <<cooldown, webhook, script, pos, total, over_counter,
                   last_alert_ts, top3, cycles, sink>>
    /\ UNCHANGED <<clock, osVars, feVars, tVars>>
    /\ UNCHANGED <<hVars, sVars>>

\* the call returns, and run() goes on to its decision
WD_Return == WD_ReadAt("reading")

\* top3 = await snapshot_top_processes(3)
WD_Snapshot ==
    /\ wd_pc = "snapshot"
    /\ clock' = clock + SampleSeconds
    /\ top3' = SnapshotRows(Primable, Primable, AlertTopN)
    /\ wd_pc' = "send"
    /\ UNCHANGED <<cooldown, webhook, script, pos, total, over_counter,
                   last_alert_ts, cycles, sink>>
    /\ UNCHANGED <<osVars, feVars, tVars>>
    /\ UNCHANGED <<hVars, sVars>>

\* what a call of _send_webhook_alert does: nothing without a webhook, a
\* completed post, or a post that raises (connection, timeout, bad URL, ...)
SinkOutcomes == {"skipped", "delivered", "Exception"}

\* there is no try around the post
SendReturnsNoCatch(out) == out \in {"skipped", "delivered"}

\* try: ... await client.post(...)  except Exception: pass
\* _send_webhook_alert returns normally whatever the post did
SendReturns(out) == out \in {"skipped", "delivered"} \/ out = "Exception"

\* await self._send_webhook_alert(total, top3); self._last_alert_ts = time.time()
\* an exception that left _send_webhook_alert would leave run() as well
WD_Send ==
    /\ wd_pc = "send"
    /\ \E d \in SendDelays, out \in SinkOutcomes :
          /\ (~webhook) => (d = 0 /\ out = "skipped")
          /\ webhook => out # "skipped"
          /\ sink' = Append(sink, [total_pct |-> total, top |-> top3, cycle |-> pos,
                                   at |-> clock, done |-> clock + d,
                                   delivered |-> (out = "delivered"), outcome |-> out])
          /\ clock' = clock + d
          /\ IF SendReturns(out)
             THEN last_alert_ts' = clock + d /\ wd_pc' = "idle"
             ELSE UNCHANGED last_alert_ts /\ wd_pc' = "crashed"
    /\ UNCHANGED <<cooldown, webhook, script, pos, total, over_counter, top3, cycles>>
    /\ UNCHANGED <<osVars, feVars, tVars>>
    /\ UNCHANGED <<hVars, sVars>>

\* await asyncio.sleep(4.0)
WD_Idle ==
    /\ wd_pc = "idle"
    /\ clock' = clock + IdleSeconds
    /\ wd_pc' = "read"
    /\ UNCHANGED <<cooldown, webhook, script, pos, total, over_counter,
                   last_alert_ts, top3, cycles, sink>>
    /\ UNCHANGED <<osVars, feVars, tVars>>
    /\ UNCHANGED <<hVars, sVars>>

-----------------------------------------------------------------------------
(* The query cache: self._last_topcpu_by_user *)

Owners == {1, 2}
\* dict.get(user_id) of a user who never ran /topcpu: None
NoEntry == [at |-> -1, rows |-> <<>>]
NoRow == [pid |-> -1, name |-> "", cpu |-> 0]
\* list indexing raised IndexError
IndexError == [pid |-> -2, name |-> "IndexError", cpu |-> 0]
NoSampling == [on |-> FALSE, primed |-> {}]
NoReq == [seq |-> 0, owner |-> 0, index |-> 0, now |-> 0, had |-> NoEntry,
          outcome |-> "none", target |-> NoRow]

\* one slot shared by every caller instead of one per user id
StoreShared(c, owner, entry) == [o \in DOMAIN c |-> entry]

\* self._last_topcpu_by_user[user_id] = {"at": ..., "rows": rows}
Store(c, owner, entry) == [c EXCEPT ![owner] = entry]

\* the age of the entry is not looked at
CacheMissNoExpiry(entry, now) == entry = NoEntry

\* not cache or (time.time() - cache["at"] > 600)
CacheMiss(entry, now) == entry = NoEntry \/ now - entry.at > CacheTTL

\* Lookup(owner): the rows of a valid entry, or absent
Lookup(c, owner, now) ==
    IF CacheMiss(c[owner], now) THEN [found |-> FALSE, rows |-> <<>>]
    ELSE [found |-> TRUE, rows |-> c[owner].rows]

\* index: app_commands.Range[int, 1, 10]
InRange(index) == RangeMin <= index /\ index <= RangeMax

\* the bound is taken for the 0-based position
IndexBeyondOffByOne(index, rows) == index - 1 > Len(rows)

\* index > len(rows)
IndexBeyond(index, rows) == index > Len(rows)

\* rows[i] of a Python list: negative i counts from the end, IndexError outside
PyIndex(rows, i) ==
    IF 0 <= i /\ i < Len(rows) THEN rows[i + 1]
    ELSE IF i < 0 /\ -Len(rows) <= i THEN rows[Len(rows) + i + 1]
    ELSE IndexError

\* what /terminate decides before it calls safe_terminate_pid
Decide(entry, index, now) ==
    IF ~InRange(index) THEN [outcome |-> "invalid_argument", target |-> NoRow]
    ELSE IF CacheMiss(entry, now) THEN [outcome |-> "expired", target |-> NoRow]
    ELSE IF IndexBeyond(index, entry.rows) THEN [outcome |-> "out_of_range", target |-> NoRow]
    ELSE IF PyIndex(entry.rows, index - 1) = IndexError
         THEN [outcome |-> "fault", target |-> NoRow]
    ELSE [outcome |-> "called", target |-> PyIndex(entry.rows, index - 1)]

-----------------------------------------------------------------------------
(* safe_terminate_pid *)

\* what an OS call on a process may raise
Exceptions == {"NoSuchProcess", "AccessDenied", "OSError"}
NoExc == "none"
NoResult == [ok |-> FALSE, msg |-> "", detail |-> ""]

MsgProtected == "Refusing to terminate a protected system process."
MsgCritical == "Refusing to terminate critical process"
MsgTerminated == "Terminated"
MsgGone == "Process no longer exists."
MsgDenied == "Access denied. Run the bot with sufficient privileges."
MsgUnexpected == "Unexpected error"

\* pid in PROTECTED_PIDS
ProtectedPid(pid) == pid \in PROTECTED_PIDS

\* the name check knows one critical name only
ProtectedNameSystemOnly(name) == name = "System"

\* name in SYSTEM_NAMES
ProtectedName(name) == name \in SYSTEM_NAMES

\* the last clause, except Exception, is missing
CatchNoGeneric(e) ==
    IF e = "NoSuchProcess" THEN [raised |-> FALSE, result |-> [ok |-> FALSE, msg |-> MsgGone, detail |-> ""]]
    ELSE IF e = "AccessDenied" THEN [raised |-> FALSE, result |-> [ok |-> FALSE, msg |-> MsgDenied, detail |-> ""]]
    ELSE [raised |-> TRUE, result |-> NoResult]

\* the except clauses, tried in order; `raised` when none of them takes the exception
Catch(e) ==
    IF e = "NoSuchProcess" THEN [raised |-> FALSE, result |-> [ok |-> FALSE, msg |-> MsgGone, detail |-> ""]]
    ELSE IF e = "AccessDenied" THEN [raised |-> FALSE, result |-> [ok |-> FALSE, msg |-> MsgDenied, detail |-> ""]]
    ELSE [raised |-> FALSE, result |-> [ok |-> FALSE, msg |-> MsgUnexpected, detail |-> e]]

\* an OS call raised e: control leaves the try block
Raise(call, e) ==
    /\ t_exc' = e
    /\ t_trace' = Append(t_trace, [call |-> call, out |-> e])
    /\ t_result' = Catch(e).result
    /\ t_pc' = IF Catch(e).raised THEN "raised" ELSE "done"

\* what an OS call on handle h may raise: NoSuchProcess exactly when the process
\* is gone (or its pid re-used), anything else only when it is there
MayRaise(h, e) == IF Running(h) THEN e # "NoSuchProcess" ELSE e = "NoSuchProcess"

Signal(sig, h) == [sig |-> sig, pid |-> h.pid, id |-> h.id, name |-> procs[h.pid].name]

\* if pid in PROTECTED_PIDS: return ...;  p = psutil.Process(pid)
T_Resolve ==
    /\ t_pc = "start"
    /\ IF ProtectedPid(t_pid)
       THEN /\ t_result' = [ok |-> FALSE, msg |-> MsgProtected, detail |-> ""]
            /\ t_pc' = "done"
            /\ UNCHANGED <<t_p, t_exc, t_trace>>
       ELSE \/ /\ Alive(t_pid)
               /\ t_p' = Handle(t_pid)
               /\ t_trace' = Append(t_trace, [call |-> "Process", out |-> "ok"])
               /\ t_pc' = "name"
               /\ UNCHANGED <<t_exc, t_result>>
            \/ /\ \E e \in Exceptions :
                     /\ IF Alive(t_pid) THEN e # "NoSuchProcess" ELSE e = "NoSuchProcess"
                     /\ Raise("Process", e)
               /\ UNCHANGED t_p
    /\ UNCHANGED <<t_pid, t_name, signals>>
    /\ UNCHANGED <<clock, osVars, wdVars, feVars>>
    /\ UNCHANGED <<hVars, sVars>>

\* name = p.name();  if name in SYSTEM_NAMES: return ...
T_Name ==
    /\ t_pc = "name"
    /\ \/ \* name() reads the name of whatever process holds the pid now
          /\ Alive(t_p.pid)
          /\ t_name' = procs[t_p.pid].name
          /\ t_trace' = Append(t_trace, [call |-> "name", out |-> "ok"])
          /\ IF ProtectedName(procs[t_p.pid].name)
             THEN /\ t_result' = [ok |-> FALSE, msg |-> MsgCritical,
                                  detail |-> procs[t_p.pid].name]
                  /\ t_pc' = "done"
             ELSE /\ t_pc' = "terminate"
                  /\ UNCHANGED t_result
          /\ UNCHANGED t_exc
       \/ /\ \E e \in Exceptions : MayRaise(t_p, e) /\ Raise("name", e)
          /\ UNCHANGED t_name
    /\ UNCHANGED <<t_pid, t_p, signals>>
    /\ UNCHANGED <<clock, osVars, wdVars, feVars>>
    /\ UNCHANGED <<hVars, sVars>>

\* p.terminate()
T_Terminate ==
    /\ t_pc = "terminate"
    /\ \/ /\ Running(t_p)
          /\ signals' = signals \cup {Signal("TERM", t_p)}
          /\ t_trace' = Append(t_trace, [call |-> "terminate", out |-> "ok"])
          /\ t_pc' = "wait"
          /\ UNCHANGED <<t_exc, t_result>>
       \/ /\ \E e \in Exceptions : MayRaise(t_p, e) /\ Raise("terminate", e)
          /\ UNCHANGED signals
    /\ UNCHANGED <<t_pid, t_p, t_name>>
    /\ UNCHANGED <<clock, osVars, wdVars, feVars>>
    /\ UNCHANGED <<hVars, sVars>>

\* TimeoutExpired is swallowed without the escalation
AfterWaitNoEscalation(out) == "done"

\* where control goes after p.wait(): on to p.kill() in the handler of
\* TimeoutExpired, to the return statement otherwise
AfterWait(out) == IF out = "TimeoutExpired" THEN "kill" ELSE "done"

\* what p.wait() did, and the step of the code that follows it
Waited(out) ==
    /\ t_trace' = Append(t_trace, [call |-> "wait", out |-> out])
    /\ t_pc' = AfterWait(out)
    /\ t_result' = IF AfterWait(out) = "done"
                    THEN [ok |-> TRUE, msg |-> MsgTerminated, detail |-> t_name]
                    ELSE t_result
    /\ UNCHANGED t_exc

\* try: p.wait(timeout=timeout)  except psutil.TimeoutExpired: p.kill()
T_Wait ==
    /\ t_pc = "wait"
    /\ \/ \* the process exits within the timeout (or is gone already)
          /\ procs' = IF Running(t_p) THEN [procs EXCEPT ![t_p.pid] = NoProc] ELSE procs
          /\ Waited("exited")
       \/ \* it is still running when the timeout elapses
          /\ Running(t_p)
          /\ Waited("TimeoutExpired")
          /\ UNCHANGED procs
       \/ \* wait() raises neither NoSuchProcess nor AccessDenied
          /\ Raise("wait", "OSError")
          /\ UNCHANGED procs
    /\ UNCHANGED <<t_pid, t_p, t_name, signals, nextId, osEvents>>
    /\ UNCHANGED <<clock, wdVars, feVars>>
    /\ UNCHANGED <<hVars, sVars>>

\* p.kill();  return True, f"Terminated **{name}** (PID {pid})."
T_Kill ==
    /\ t_pc = "kill"
    /\ \/ /\ Running(t_p)
          /\ signals' = signals \cup {Signal("KILL", t_p)}
          /\ procs' = [procs EXCEPT ![t_p.pid] = NoProc]
          /\ t_trace' = Append(t_trace, [call |-> "kill", out |-> "ok"])
          /\ t_result' = [ok |-> TRUE, msg |-> MsgTerminated, detail |-> t_name]
          /\ t_pc' = "done"
          /\ UNCHANGED t_exc
       \/ /\ \E e \in Exceptions : MayRaise(t_p, e) /\ Raise("kill", e)
          /\ UNCHANGED <<signals, procs>>
    /\ UNCHANGED <<t_pid, t_p, t_name, nextId, osEvents>>
    /\ UNCHANGED <<clock, wdVars, feVars>>
    /\ UNCHANGED <<hVars, sVars>>

-----------------------------------------------------------------------------
(* The Bot's commands *)

\* how far a Tick moves the clock: by the cache's lifetime, or just past it
TickSteps == {CacheTTL, CacheTTL + 1}

InitFrontEnd ==
    /\ cache = [o \in Owners |-> NoEntry]
    /\ stored = [o \in Owners |-> NoEntry]
    /\ sampling = [o \in Owners |-> NoSampling]
    /\ req = NoReq
    /\ ops = 0

InitTerminate ==
    /\ t_pc = "idle"
    /\ t_pid = 0
    /\ t_p = NoHandle
    /\ t_name = ""
    /\ t_exc = NoExc
    /\ t_result = NoResult
    /\ t_trace = <<>>
    /\ signals = {}

InitOS ==
    /\ procs = InitialProcs
    /\ nextId = 4
    /\ osEvents = 0

\* /topcpu up to the await inside snapshot_top_processes: enumerate and prime
FE_TopcpuBegin(owner) ==
    /\ ops < MaxOps
    /\ ~sampling[owner].on
    /\ sampling' = [sampling EXCEPT ![owner] = [on |-> TRUE, primed |-> Primable]]
    /\ ops' = ops + 1
    /\ UNCHANGED <<cache, stored, req>>
    /\ UNCHANGED <<clock, osVars, wdVars, tVars>>
    /\ UNCHANGED <<hVars, sVars>>

\* /topcpu after the wait: re-read, sort, cut, and store under the caller's id
FE_TopcpuEnd(owner) ==
    /\ sampling[owner].on
    /\ \E readable \in SUBSET {h \in sampling[owner].primed : Alive(h.pid)} :
          LET rows  == SnapshotRows(sampling[owner].primed, readable, TopN)
              entry == [at |-> clock + SampleSeconds, rows |-> rows]
          IN /\ cache' = Store(cache, owner, entry)
             /\ stored' = [stored EXCEPT ![owner] = entry]
    /\ clock' = clock + SampleSeconds
    /\ sampling' = [sampling EXCEPT ![owner] = NoSampling]
    /\ UNCHANGED <<req, ops>>
    /\ UNCHANGED <<osVars, wdVars, tVars>>
    /\ UNCHANGED <<hVars, sVars>>

\* /terminate <index>: look the caller's list up, check the index, pick the row
\* and hand its pid to safe_terminate_pid in a worker thread
FE_Terminate(owner, index) ==
    /\ ops < MaxOps
    /\ t_pc \in {"idle", "done"}
    /\ LET d == Decide(cache[owner], index, clock)
       IN /\ req' = [seq |-> req.seq + 1, owner |-> owner, index |-> index,
                     now |-> clock, had |-> stored[owner],
                     outcome |-> d.outcome, target |-> d.target]
          /\ IF d.outcome = "called"
             THEN /\ t_pc' = "start"
                  /\ t_pid' = d.target.pid
                  /\ t_p' = NoHandle
                  /\ t_name' = ""
                  /\ t_exc' = NoExc
                  /\ t_result' = NoResult
                  /\ t_trace' = <<>>
                  /\ UNCHANGED signals
             ELSE UNCHANGED tVars
    /\ ops' = ops + 1
    /\ UNCHANGED <<cache, stored, sampling>>
    /\ UNCHANGED <<clock, osVars, wdVars>>
    /\ UNCHANGED <<hVars, sVars>>

\* time passes
Tick(d) ==
    /\ ops < MaxOps
    /\ clock' = clock + d
    /\ ops' = ops + 1
    /\ UNCHANGED <<cache, stored, sampling, req>>
    /\ UNCHANGED <<osVars, wdVars, tVars>>
    /\ UNCHANGED <<hVars, sVars>>

\* a process exits on its own
OS_Exit(pid) ==
    /\ osEvents < MaxOsEvents
    /\ Alive(pid)
    /\ procs' = [procs EXCEPT ![pid] = NoProc]
    /\ osEvents' = osEvents + 1
    /\ UNCHANGED nextId
    /\ UNCHANGED <<clock, wdVars, feVars, tVars>>
    /\ UNCHANGED <<hVars, sVars>>

\* the OS starts a process under a free pid
OS_Spawn(pid, name) ==
    /\ osEvents < MaxOsEvents
    /\ ~Alive(pid)
    /\ procs' = [procs EXCEPT ![pid] = [name |-> name, id |-> nextId, cpu |-> 30]]
    /\ nextId' = nextId + 1
    /\ osEvents' = osEvents + 1
    /\ UNCHANGED <<clock, wdVars, feVars, tVars>>
    /\ UNCHANGED <<hVars, sVars>>

\* a caller invokes safe_terminate_pid(pid)
T_Call(pid) ==
    /\ t_pc \in {"idle", "done"}
    /\ ops < MaxOps
    /\ ops' = ops + 1
    /\ t_pc' = "start"
    /\ t_pid' = pid
    /\ t_p' = NoHandle
    /\ t_name' = ""
    /\ t_exc' = NoExc
    /\ t_result' = NoResult
    /\ t_trace' = <<>>
    /\ UNCHANGED signals
    /\ req' = [NoReq EXCEPT !.now = clock]
    /\ UNCHANGED <<cache, stored, sampling>>
    /\ UNCHANGED <<clock, osVars, wdVars>>
    /\ UNCHANGED <<hVars, sVars>>

-----------------------------------------------------------------------------
(* CPU_HISTORY, Bot._cpu_history_collector and Bot._build_status_embed *)

\* what psutil.cpu_percent(interval=None) returns, call after call: each run
\* repeats one of these patterns
ReadingPatterns == {<<10, 50, 95>>, <<95, 50>>, <<7, 7, 100, 3>>}
\* the value of the k-th call
Reading(k) == readings[((k - 1) % Len(readings)) + 1]

NoAccess == [task |-> "none", op |-> "none", holder |-> "none"]
NoStats == [n |-> -1, max |-> 0, sum |-> 0]

\* a full deque refuses the new value instead of evicting the oldest
DequeAppendKeepOldest(q, v) == IF Len(q) < HistoryCap THEN Append(q, v) ELSE q

\* deque(maxlen=150).append(v): when full, the oldest entry is discarded
DequeAppend(q, v) == IF Len(q) < HistoryCap THEN Append(q, v) ELSE Append(Tail(q), v)

\* max(with_history), over q[lo..hi] by halves
RECURSIVE RangeMaxOf(_, _, _)
RangeMaxOf(q, lo, hi) ==
    IF lo = hi THEN q[lo]
    ELSE LET mid == (lo + hi) \div 2
             a   == RangeMaxOf(q, lo, mid)
             b   == RangeMaxOf(q, mid + 1, hi)
         IN IF a >= b THEN a ELSE b
SeqMax(q) == RangeMaxOf(q, 1, Len(q))

\* sum(with_history), over q[lo..hi] by halves
RECURSIVE RangeSumOf(_, _, _)
RangeSumOf(q, lo, hi) ==
    IF lo > hi THEN 0
    ELSE IF lo = hi THEN q[lo]
    ELSE LET mid == (lo + hi) \div 2
         IN RangeSumOf(q, lo, mid) + RangeSumOf(q, mid + 1, hi)
SeqSum(q) == RangeSumOf(q, 1, Len(q))

InitHistory ==
    /\ history = <<>>
    /\ appends = 0
    /\ rec_pc = "read"
    /\ lock = "none"
    /\ access = NoAccess
    /\ stats = NoStats

\* value = psutil.cpu_percent(interval=None);  async with CPU_HISTORY_LOCK:
\* the lock is free (nothing else ever takes it), so acquire() returns at once
H_Acquire ==
    /\ rec_pc = "read"
    /\ appends < MaxAppends
    /\ lock = "none"
    /\ lock' = "recorder"
    /\ rec_pc' = "locked"
    /\ UNCHANGED <<history, appends, readings, access, stats>>
    /\ UNCHANGED <<clock, osVars, wdVars, feVars, tVars, sVars>>

\* CPU_HISTORY.append(value), and the end of the `async with` block
H_Append ==
    /\ rec_pc = "locked"
    /\ history' = DequeAppend(history, Reading(appends + 1))
    /\ appends' = appends + 1
    /\ access' = [task |-> "recorder", op |-> "append", holder |-> lock]
    /\ lock' = "none"
    /\ rec_pc' = "sleep"
    /\ UNCHANGED <<readings, stats>>
    /\ UNCHANGED <<clock, osVars, wdVars, feVars, tVars, sVars>>

\* await asyncio.sleep(2.0)
H_Sleep ==
    /\ rec_pc = "sleep"
    /\ rec_pc' = "read"
    /\ UNCHANGED <<history, appends, readings, lock, access, stats>>
    /\ UNCHANGED <<clock, osVars, wdVars, feVars, tVars, sVars>>

\* _build_status_embed (called by /status and by each of its 150 refreshes):
\* with_history = list(CPU_HISTORY), then max and sum / len of the copy.  The
\* function is synchronous and the collector does not await between taking the
\* lock and releasing it, so the copy is never taken in between.
S_Build ==
    /\ rec_pc # "locked"
    /\ access' = [task |-> "status", op |-> "copy", holder |-> lock]
    /\ stats' = IF history = <<>> THEN [n |-> 0, max |-> 0, sum |-> 0]
                ELSE [n |-> Len(history), max |-> SeqMax(history), sum |-> SeqSum(history)]
    /\ UNCHANGED <<history, appends, readings, rec_pc, lock>>
    /\ UNCHANGED <<clock, osVars, wdVars, feVars, tVars, sVars>>

-----------------------------------------------------------------------------
(* snapshot_top_processes, step by step *)

\* what a cpu_percent call on a handle may do; psutil documents NoSuchProcess
\* and AccessDenied for it
SamplerOutcomes == {"ok", "NoSuchProcess", "AccessDenied"}

\* only a vanished process is skipped
SkippedOnlyVanished(e) == e = "NoSuchProcess"

\* except (psutil.NoSuchProcess, psutil.AccessDenied): continue
Skipped(e) == e \in {"NoSuchProcess", "AccessDenied"}

\* cpu_percent on handle h: a running process is read or denied; a process that
\* is gone raises NoSuchProcess; when its pid was given to another process the
\* call, which does not compare creation stamps, may also read that one
ValidOutcome(h, o) ==
    CASE Running(h)   -> o \in {"ok", "AccessDenied"}
      [] Alive(h.pid) -> o \in {"ok", "NoSuchProcess"}
      [] OTHER        -> o = "NoSuchProcess"

\* the outcomes of one loop over `handles`
LoopOutcomes(handles) ==
    {out \in [handles -> SamplerOutcomes] : \A h \in handles : ValidOutcome(h, out[h])}

\* an exception the loop does not catch leaves snapshot_top_processes
Aborts(handles, out) == \E h \in handles : out[h] # "ok" /\ ~Skipped(out[h])

InitSampler ==
    /\ cpus = 1
    /\ s_pc = "idle"
    /\ s_n = 0
    /\ s_seen = {}
    /\ s_primed = {}
    /\ s_read = {}
    /\ s_rows = <<>>

\* snapshot_top_processes(n): process_iter lists the processes there are
S_Call(n) ==
    /\ s_pc = "idle"
    /\ s_n' = n
    /\ s_seen' = Primable
    /\ s_pc' = "prime"
    /\ UNCHANGED <<cpus, s_primed, s_read, s_rows>>
    /\ UNCHANGED <<clock, osVars, wdVars, feVars, tVars, hVars>>

\* p.cpu_percent(None) on each; procs.append(p) unless it raised
S_Prime ==
    /\ s_pc = "prime"
    /\ \E out \in LoopOutcomes(s_seen) :
          /\ s_primed' = {h \in s_seen : out[h] = "ok"}
          /\ s_pc' = IF Aborts(s_seen, out) THEN "aborted" ELSE "wait"
    /\ UNCHANGED <<cpus, s_n, s_seen, s_read, s_rows>>
    /\ UNCHANGED <<clock, osVars, wdVars, feVars, tVars, hVars>>

\* await asyncio.sleep(sample_seconds)
S_Wait ==
    /\ s_pc = "wait"
    /\ clock' = clock + SampleSeconds
    /\ s_pc' = "reread"
    /\ UNCHANGED <<cpus, s_n, s_seen, s_primed, s_read, s_rows>>
    /\ UNCHANGED <<osVars, wdVars, feVars, tVars, hVars>>

\* the second loop, rows.sort(...) and return rows[:n]
S_Reread ==
    /\ s_pc = "reread"
    /\ \E out \in LoopOutcomes(s_primed) :
          LET readable == {h \in s_primed : out[h] = "ok"}
          IN /\ s_read' = {[h |-> h, raw |-> procs[h.pid].cpu] : h \in readable}
             /\ IF Aborts(s_primed, out)
                THEN s_pc' = "aborted" /\ UNCHANGED s_rows
                ELSE s_pc' = "done" /\ s_rows' = SnapshotRows(s_primed, readable, s_n)
    /\ UNCHANGED <<cpus, s_n, s_seen, s_primed>>
    /\ UNCHANGED <<clock, osVars, wdVars, feVars, tVars, hVars>>

-----------------------------------------------------------------------------
(* The event loop: which task may take a step *)

\* the steps of safe_terminate_pid between its call and its return
InCall == {"start", "name", "terminate", "wait", "kill"}

\* /terminate calls safe_terminate_pid itself
TerminateRunsOnLoop == "loop"

\* ok, msg = await asyncio.to_thread(safe_terminate_pid, target["pid"])
TerminateRunsOn == "thread"

\* the task that occupies the thread of the event loop without awaiting: the
\* watchdog inside psutil.cpu_percent(interval=1.0), the collector between
\* taking CPU_HISTORY_LOCK and releasing it, safe_terminate_pid if it ran there
LoopHolder ==
    IF wd_pc = "reading" THEN "watchdog"
    ELSE IF rec_pc = "locked" THEN "recorder"
    ELSE IF TerminateRunsOn = "loop" /\ t_pc \in InCall THEN "terminate"
    ELSE "none"

\* a coroutine takes a step only when the loop is free, or is its own
OnLoop(task) == LoopHolder \in {"none", task}
\* safe_terminate_pid takes its steps wherever it runs
OffLoop == TerminateRunsOn = "loop" => LoopHolder = "terminate"

L_Enter == OnLoop("watchdog") /\ WD_Enter
L_Return == OnLoop("watchdog") /\ WD_Return
L_Snapshot == OnLoop("watchdog") /\ WD_Snapshot
L_Send == OnLoop("watchdog") /\ WD_Send
L_Idle == OnLoop("watchdog") /\ WD_Idle
L_Acquire == OnLoop("recorder") /\ appends < MaxLoopAppends /\ H_Acquire
L_Append == OnLoop("recorder") /\ H_Append
L_Sleep == OnLoop("recorder") /\ H_Sleep
L_Status == OnLoop("status") /\ S_Build
L_Call(pid) == OnLoop("terminate") /\ T_Call(pid)
L_Resolve == OffLoop /\ T_Resolve
L_Name == OffLoop /\ T_Name
L_Terminate == OffLoop /\ T_Terminate
L_Wait == OffLoop /\ T_Wait
L_Kill == OffLoop /\ T_Kill

-----------------------------------------------------------------------------
(* Specifications *)

\* indices a caller may type: the small ones, and one beyond the declared range
Indices == (0..MaxIndex) \cup {RangeMax + 1}

\* the watchdog with nothing to read
InitWatchdogOff ==
    /\ cooldown \in {c \in Cooldowns : \A x \in Cooldowns : x <= c}
    /\ webhook = FALSE
    /\ script = <<>>
    /\ pos = 0
    /\ wd_pc = "read"
    /\ total = 0
    /\ over_counter = 0
    /\ last_alert_ts = 0
    /\ top3 = <<>>
    /\ cycles = <<>>
    /\ sink = <<>>

\* the watchdog alone, fed a script of readings
InitWD ==
    /\ clock = BootTime
    /\ InitOS
    /\ InitWatchdog
    /\ InitFrontEnd
    /\ InitTerminate
    /\ InitHistory
    /\ readings = <<0>>
    /\ InitSampler
NextWD == WD_Read \/ WD_Snapshot \/ WD_Send \/ WD_Idle
SpecWatchdog == InitWD /\ [][NextWD]_vars

\* the commands, the worker thread and the OS
InitCmd ==
    /\ clock = BootTime
    /\ InitOS
    /\ InitFrontEnd
    /\ InitTerminate
    /\ cooldown \in {c \in Cooldowns : \A x \in Cooldowns : x <= c}
    /\ webhook = FALSE
    /\ script = <<>>
    /\ pos = 0
    /\ wd_pc = "read"
    /\ total = 0
    /\ over_counter = 0
    /\ last_alert_ts = 0
    /\ top3 = <<>>
    /\ cycles = <<>>
    /\ sink = <<>>
    /\ InitHistory
    /\ readings = <<0>>
    /\ InitSampler
NextCmd ==
    \/ \E o \in Owners : FE_TopcpuBegin(o)
    \/ \E o \in Owners : FE_TopcpuEnd(o)
    \/ \E o \in Owners, i \in Indices : FE_Terminate(o, i)
    \/ T_Resolve
    \/ T_Name
    \/ T_Terminate
    \/ T_Wait
    \/ T_Kill
    \/ \E d \in TickSteps : Tick(d)
SpecCommands == InitCmd /\ [][NextCmd]_vars

\* safe_terminate_pid called with any pid, while processes come and go
CallPids == PROTECTED_PIDS \cup PIDS \cup {9}
NextTerm ==
    \/ \E pid \in CallPids : T_Call(pid)
    \/ T_Resolve
    \/ T_Name
    \/ T_Terminate
    \/ T_Wait
    \/ T_Kill
    \/ \E pid \in PIDS : OS_Exit(pid)
    \/ \E pid \in PIDS, n \in Names : OS_Spawn(pid, n)
SpecTerminate == InitCmd /\ [][NextTerm]_vars

\* snapshot_top_processes as a function of the process table, the core count
\* and n
RawVals == {-40, 40, 80, 400}
CoreCounts == {0, 2, 4}
Populations ==
    {[pid \in PIDS |-> IF pid \in present
                         THEN [InitialProcs[pid] EXCEPT !.cpu = raw[pid]]
                         ELSE NoProc] :
        present \in SUBSET PIDS, raw \in [PIDS -> RawVals]}
InitSamp ==
    /\ clock = BootTime
    /\ procs \in Populations
    /\ nextId = 4
    /\ osEvents = 0
    /\ InitWatchdogOff
    /\ InitFrontEnd
    /\ InitTerminate
    /\ InitHistory
    /\ readings = <<0>>
    /\ cpus \in CoreCounts
    /\ s_pc = "idle"
    /\ s_n = 0
    /\ s_seen = {}
    /\ s_primed = {}
    /\ s_read = {}
    /\ s_rows = <<>>
NextSamp == (\E n \in 0..MaxTopN : S_Call(n)) \/ S_Prime \/ S_Wait \/ S_Reread
SpecSampler == InitSamp /\ [][NextSamp]_vars

\* snapshot_top_processes while processes come and go; n is one of the two
\* values the program passes
NextChurn ==
    \/ \E n \in {TopN, AlertTopN} : S_Call(n)
    \/ S_Prime
    \/ S_Wait
    \/ S_Reread
    \/ \E pid \in PIDS : OS_Exit(pid)
    \/ \E pid \in PIDS, n \in Names : OS_Spawn(pid, n)
SpecChurn == InitCmd /\ [][NextChurn]_vars

\* one caller's /topcpu and /terminate while processes exit and pids are given
\* to new processes
NextReuse ==
    \/ FE_TopcpuBegin(1)
    \/ FE_TopcpuEnd(1)
    \/ \E i \in 1..MaxIndex : FE_Terminate(1, i)
    \/ T_Resolve
    \/ T_Name
    \/ T_Terminate
    \/ T_Wait
    \/ T_Kill
    \/ Tick(CacheTTL)
    \/ \E pid \in PIDS : OS_Exit(pid)
    \/ \E pid \in PIDS, n \in Names : OS_Spawn(pid, n)
SpecReuse == InitCmd /\ [][NextReuse]_vars

\* the tasks of the event loop and the worker thread together
InitLoop ==
    /\ clock = BootTime
    /\ InitOS
    /\ InitWatchdog
    /\ cooldown = 300
    /\ ~webhook
    /\ script = HysteresisScript
    /\ InitFrontEnd
    /\ InitTerminate
    /\ InitHistory
    /\ readings = <<10, 50, 95>>
    /\ InitSampler
NextLoop ==
    \/ L_Enter
    \/ L_Return
    \/ L_Snapshot
    \/ L_Send
    \/ L_Idle
    \/ L_Acquire
    \/ L_Append
    \/ L_Sleep
    \/ L_Status
    \/ \E pid \in {7, 8} : L_Call(pid)
    \/ L_Resolve
    \/ L_Name
    \/ L_Terminate
    \/ L_Wait
    \/ L_Kill
SpecLoop == InitLoop /\ [][NextLoop]_vars

\* the history collector and the status display
InitHist ==
    /\ clock = BootTime
    /\ InitOS
    /\ InitWatchdogOff
    /\ InitFrontEnd
    /\ InitTerminate
    /\ InitHistory
    /\ readings \in ReadingPatterns
    /\ InitSampler
NextHist == H_Acquire \/ H_Append \/ H_Sleep \/ S_Build
SpecHistory == InitHist /\ [][NextHist]_vars

-----------------------------------------------------------------------------
(* Properties of the watchdog (checked under SpecWatchdog) *)

\* the length of the unbroken run of readings >= threshold that ends at reading k
RECURSIVE RunLen(_, _)
RunLen(s, k) == IF k = 0 \/ s[k] < Threshold THEN 0 ELSE 1 + RunLen(s, k - 1)

\* the value last_alert_ts holds when cycle k decides: the time the latest
\* earlier alert call returned, or 0 when there was none
RECURSIVE StampBefore(_, _)
StampBefore(k, n) ==
    IF n = 0 THEN 0
    ELSE IF sink[n].cycle < k THEN sink[n].done
    ELSE StampBefore(k, n - 1)

FiredCycles == {k \in 1..Len(cycles) : cycles[k].fired}

\* C1: an alert is fired (snapshot taken, alert handed to the sink) only in a cycle
\* whose own reading is >= threshold, whose counter after the increment is >= 2 and
\* whose time is more than the cooldown after the last alert; the alert carries the
\* reading of that same cycle, so every alert reports a total >= threshold.
C1_AlertOnlyWhenDue ==
    /\ \A k \in FiredCycles :
          /\ cycles[k].reading = script[k]
          /\ script[k] >= Threshold
          /\ cycles[k].counter >= 2
          /\ RunLen(script, k) >= 2
          /\ cycles[k].now - StampBefore(k, Len(sink)) > cooldown
    /\ \A n \in 1..Len(sink) :
          /\ sink[n].cycle \in FiredCycles
          /\ sink[n].total_pct = script[sink[n].cycle]
          /\ sink[n].total_pct >= Threshold
          /\ \A m \in 1..Len(sink) : sink[m].cycle = sink[n].cycle => m = n
    /\ wd_pc \in {"snapshot", "send"} => (pos \in FiredCycles /\ total = script[pos])

\* C1 witness: two alerts have reached the sink
C1_Witness == Len(sink) >= 2 /\ sink[2].total_pct >= Threshold

\* C2: any two fired alerts are more than the cooldown apart (by the time of their
\* decision and by the time they are handed to the sink), and a cycle whose counter
\* is >= 2 within the cooldown of the previous alert fires nothing.
C2_OncePerCooldown ==
    /\ \A i, j \in 1..Len(sink) : i < j =>
          /\ sink[j].at - sink[i].at > cooldown
          /\ cycles[sink[j].cycle].now - sink[i].done > cooldown
    /\ \A i, j \in FiredCycles : i < j => cycles[j].now - cycles[i].now > cooldown
    /\ \A k \in 1..Len(cycles) :
          (/\ cycles[k].counter >= 2
           /\ \E n \in 1..Len(sink) : sink[n].cycle < k
           /\ cycles[k].now - StampBefore(k, Len(sink)) <= cooldown)
          => k \notin FiredCycles

\* C2 witness: a second alert after the cooldown, with a suppressed cycle of
\* counter >= 2 in between
C2_Witness ==
    /\ Len(sink) >= 2
    /\ \E k \in 1..Len(cycles) :
          /\ sink[1].cycle < k /\ k < sink[2].cycle
          /\ cycles[k].counter >= 2
          /\ ~cycles[k].fired

\* C3: after every cycle the counter is the length of the current unbroken run of
\* readings >= threshold (a reading equal to the threshold counts); one reading
\* below the threshold makes it 0; firing leaves it alone.  For 95,95,50,95,95 the
\* counter goes 1,2,0,1,2 and nothing fires at the first 95 or at the 50.
C3_CounterIsRunLength ==
    /\ over_counter = RunLen(script, pos)
    /\ \A k \in 1..Len(cycles) :
          /\ cycles[k].counter = RunLen(script, k)
          /\ script[k] < Threshold => cycles[k].counter = 0
          /\ script[k] = Threshold => cycles[k].counter >= 1
    /\ script = HysteresisScript =>
          \A k \in 1..Len(cycles) :
             /\ cycles[k].counter = <<1, 2, 0, 1, 2>>[k]
             /\ k \in {1, 3} => ~cycles[k].fired

\* C3 witness: the hysteresis sequence run to its end, an alert fired at each
\* counter of 2 and the counter still 2
C3_Witness ==
    /\ script = HysteresisScript
    /\ pos = Len(script)
    /\ wd_pc = "idle"
    /\ Len(sink) = 2
    /\ over_counter = 2

\* C4 as stated: with threshold 90 and cooldown 60, the readings 92,93,91,89,96,97
\* fire exactly one alert, at the third consecutive reading over the threshold
C4_AlertAtThirdReading ==
    (script = E2EScript /\ cooldown = 60 /\ pos = Len(script) /\ wd_pc = "idle")
    => (FiredCycles = {3} /\ Len(sink) = 1)

\* C4 amended: with threshold 90 and cooldown 60, the readings 92,93,91,89,96,97
\* fire exactly one alert, at the second consecutive reading over the threshold
\* (the 93); nothing fires for the 91 or for the later 96/97 pair.
C4_AlertAtSecondReading ==
    (script = E2EScript /\ cooldown = 60) =>
        /\ FiredCycles = {k \in 1..Len(cycles) : k = 2}
        /\ \A n \in 1..Len(sink) : n = 1 /\ sink[n].cycle = 2 /\ sink[n].total_pct = 93
        /\ (pos = Len(script) /\ wd_pc = "idle") => Len(sink) = 1

\* C4 witness: the end-to-end sequence run to its end with its one alert
C4_Witness ==
    /\ script = E2EScript
    /\ cooldown = 60
    /\ pos = Len(script)
    /\ wd_pc = "idle"
    /\ Len(sink) = 1

-----------------------------------------------------------------------------
(* Properties of safe_terminate_pid (checked under SpecTerminate) *)

Returned == t_pc = "done"
Calls == {t_trace[i].call : i \in 1..Len(t_trace)}
LastCall == t_trace[Len(t_trace)]
TimedOut == \E i \in 1..Len(t_trace) : t_trace[i] = [call |-> "wait", out |-> "TimeoutExpired"]
PidIsProtected == t_pid \in PROTECTED_PIDS

\* C5: no terminate or kill request ever goes to a process whose pid is protected or
\* whose name is protected; a protected pid is refused before the process is
\* resolved, a protected name is refused whatever its pid; both return ok = false.
C5_ProtectedNeverSignalled ==
    /\ \A s \in signals : s.pid \notin PROTECTED_PIDS /\ s.name \notin SYSTEM_NAMES
    /\ (t_pc # "idle" /\ PidIsProtected) =>
          /\ t_trace = <<>>
          /\ t_pc \in {"start", "done"}
          /\ Returned => t_result = [ok |-> FALSE, msg |-> MsgProtected, detail |-> ""]
    /\ (t_pc # "idle" /\ t_name \in SYSTEM_NAMES) =>
          /\ Returned
          /\ t_result = [ok |-> FALSE, msg |-> MsgCritical, detail |-> t_name]
          /\ Calls = {"Process", "name"}

\* C5 witness: a process of protected name and unprotected pid is refused, after an
\* earlier call did signal an unprotected process
C5_Witness ==
    /\ Returned
    /\ ~PidIsProtected
    /\ t_name \in SYSTEM_NAMES
    /\ t_result.msg = MsgCritical
    /\ signals # {}

\* C6: the call never raises: whatever the pid and whatever the OS does at any step,
\* it ends in an (ok, message) pair, decided in order: protected pid -> protected
\* refusal (even when no such process exists); no such process -> "no longer
\* exists"; access denied -> "access denied"; any other error -> generic failure
\* with the error's detail.  All of these have ok = false and differ in message.
C6_NeverRaises ==
    /\ t_pc # "raised"
    /\ Cardinality({MsgProtected, MsgCritical, MsgGone, MsgDenied, MsgUnexpected,
                    MsgTerminated}) = 6
    /\ Returned =>
          /\ PidIsProtected =>
                t_result = [ok |-> FALSE, msg |-> MsgProtected, detail |-> ""]
          /\ (~PidIsProtected /\ t_pid \notin PIDS) =>
                t_result = [ok |-> FALSE, msg |-> MsgGone, detail |-> ""]
          /\ (~PidIsProtected /\ t_exc = "NoSuchProcess") =>
                t_result = [ok |-> FALSE, msg |-> MsgGone, detail |-> ""]
          /\ (~PidIsProtected /\ t_exc = "AccessDenied") =>
                t_result = [ok |-> FALSE, msg |-> MsgDenied, detail |-> ""]
          /\ (~PidIsProtected /\ t_exc = "OSError") =>
                t_result = [ok |-> FALSE, msg |-> MsgUnexpected, detail |-> "OSError"]
          /\ t_exc # NoExc => (t_trace # <<>> /\ LastCall.out = t_exc)
          /\ t_result.ok => (t_exc = NoExc /\ t_result.msg = MsgTerminated)
          /\ t_result.msg \in {MsgProtected, MsgCritical, MsgGone, MsgDenied,
                               MsgUnexpected, MsgTerminated}

\* C6 witness: the last OS call of the call, the kill, raised an unexpected error
\* and the call returned the generic failure
C6_Witness ==
    /\ Returned
    /\ t_exc = "OSError"
    /\ LastCall.call = "kill"
    /\ t_result.msg = MsgUnexpected

\* C7: the graceful request comes first, then the wait; the kill is issued only
\* after the graceful request was made and the wait timed out, never when the
\* process exited within the timeout; after a timeout the call returns only once
\* the kill step has been performed, with ok = true when the kill went through.
C7_KillOnlyAfterTimeout ==
    /\ \A i \in 1..Len(t_trace) :
          /\ t_trace[i].call = "kill" =>
                /\ i = 5
                /\ t_trace[i - 1] = [call |-> "wait", out |-> "TimeoutExpired"]
                /\ t_trace[i - 2] = [call |-> "terminate", out |-> "ok"]
          /\ t_trace[i].call = "wait" =>
                /\ i = 4
                /\ t_trace[i - 1] = [call |-> "terminate", out |-> "ok"]
          /\ t_trace[i] = [call |-> "wait", out |-> "exited"] =>
                /\ i = Len(t_trace)
                /\ Returned
                /\ t_result.ok
    /\ \A s \in signals : s.sig = "KILL" => [s EXCEPT !.sig = "TERM"] \in signals
    /\ (Returned /\ TimedOut) => LastCall.call = "kill"
    /\ (Returned /\ TimedOut /\ t_result.ok) =>
          /\ LastCall = [call |-> "kill", out |-> "ok"]
          /\ [sig |-> "KILL", pid |-> t_p.pid, id |-> t_p.id, name |-> t_name] \in signals
    /\ (Returned /\ t_trace # <<>> /\ LastCall = [call |-> "kill", out |-> "ok"]) =>
          t_result = [ok |-> TRUE, msg |-> MsgTerminated, detail |-> t_name]

\* C7 witness: a slow-to-exit process was asked to terminate, outlived the wait, was
\* killed, and the call returned ok = true
C7_Witness ==
    /\ Returned
    /\ TimedOut
    /\ LastCall = [call |-> "kill", out |-> "ok"]
    /\ t_result.ok

-----------------------------------------------------------------------------
(* Properties of the query cache and /terminate (checked under SpecCommands) *)

\* what the specification's Lookup(owner) is to return at time `now`, by the
\* history of stores
Expected(owner, now) ==
    IF stored[owner] # NoEntry /\ now - stored[owner].at <= 600
    THEN [found |-> TRUE, rows |-> stored[owner].rows]
    ELSE [found |-> FALSE, rows |-> <<>>]

Requested == req.outcome # "none"
ReqIndexDeclared == 1 <= req.index /\ req.index <= 10
ReqHadEntry == req.had # NoEntry
ReqAge == req.now - req.had.at

\* C8: after any interleaving of stores and lookups by any owners, Lookup(owner)
\* returns the snapshot that owner stored last if it is at most 600 s old, and is
\* absent otherwise; a store touches only its owner's entry; a lookup right after a
\* store returns what was stored.
C8_LookupReturnsOwnLatest ==
    /\ \A o \in Owners : Lookup(cache, o, clock) = Expected(o, clock)
    /\ \A o \in Owners : stored[o] # NoEntry => Lookup(cache, o, stored[o].at).rows = stored[o].rows
    /\ (Requested /\ ReqIndexDeclared) =>
          /\ req.outcome = "expired" <=> ~(ReqHadEntry /\ ReqAge <= 600)
          /\ req.outcome = "called" => req.target = req.had.rows[req.index]

\* C8 witness: both owners hold entries of different rows, and a lookup by one of
\* them found its own
C8_Witness ==
    /\ \A o \in Owners : stored[o] # NoEntry
    /\ stored[1].rows # stored[2].rows
    /\ req.outcome = "called"
    /\ req.target = stored[req.owner].rows[req.index]

\* C9 as stated: a lookup at an age of 600 s or more, 600 s exactly included, is
\* absent
C9_AbsentFromAge600 ==
    (Requested /\ ReqIndexDeclared /\ ReqHadEntry /\ ReqAge >= 600) => req.outcome = "expired"

\* C9 amended: a lookup at an age of more than 600 s is absent and the request
\* attempts no termination (the worker thread's state is left as it was); at an age
\* of exactly 600 s the entry is still returned.
C9_AbsentPastAge600 ==
    [][(req'.seq # req.seq /\ 1 <= req'.index /\ req'.index <= 10 /\ req'.had # NoEntry) =>
          /\ (req'.now - req'.had.at > 600) =>
                (req'.outcome = "expired" /\ req'.target = NoRow /\ UNCHANGED tVars)
          /\ (req'.now - req'.had.at <= 600) => req'.outcome # "expired"]_vars

\* C9 witness: a request found its caller's entry more than 600 s old
C9_Witness == Requested /\ ReqHadEntry /\ ReqAge > 600 /\ req.outcome = "expired"

\* C10: with a valid entry, index 0 and every index > len(rows) are rejected: no
\* fault, no row selected, no call of safe_terminate_pid; only 1..len(rows) reach
\* it, index i with the i-th row of the stored snapshot.
C10_IndexChecked ==
    /\ req.outcome # "fault"
    /\ (Requested /\ ReqHadEntry /\ ReqAge <= 600) =>
          /\ (req.index = 0 \/ req.index > Len(req.had.rows)) =>
                /\ req.outcome \in {"invalid_argument", "out_of_range"}
                /\ req.target = NoRow
          /\ (req.index >= 1 /\ req.index <= Len(req.had.rows)) =>
                /\ req.outcome = "called"
                /\ req.target = req.had.rows[req.index]
    /\ req.outcome # "called" => t_pc \in {"idle", "done"}
    /\ t_pc \notin {"idle", "done"} => (req.outcome = "called" /\ t_pid = req.target.pid)

\* C10 witness: an index within the declared range but beyond the stored rows was
\* rejected
C10_Witness ==
    /\ ReqHadEntry
    /\ ReqAge <= 600
    /\ req.index <= 10
    /\ req.index > Len(req.had.rows)
    /\ Len(req.had.rows) >= 1
    /\ req.outcome = "out_of_range"

-----------------------------------------------------------------------------
(* Properties of CPU_HISTORY (checked under SpecHistory) *)

\* C11: after k appends CPU_HISTORY holds at most 150 values, and they are
\* exactly the latest min(k, 150) appended values, oldest first: nothing but the
\* eviction of the oldest entry by an append on a full window ever removes or
\* changes an entry (reading the window for the status display does not).
C11_HistoryIsRecentWindow ==
    LET n == IF appends < 150 THEN appends ELSE 150
    IN /\ Len(history) <= 150
       /\ history = [i \in 1..n |-> Reading(appends - n + i)]

\* 151 appends of values that differ: the first one is gone, the second is the
\* oldest left, the 151st the newest; and the status display has read the window
C11_Witness ==
    /\ appends = 151
    /\ Reading(1) # Reading(2)
    /\ Len(history) = 150
    /\ history[1] = Reading(2)
    /\ history[150] = Reading(151)
    /\ stats.n = 150

\* C12: every access to CPU_HISTORY, the collector's append and the status
\* display's copy alike, is made by a task that holds CPU_HISTORY_LOCK at that
\* moment.
C12_AccessUnderLock ==
    access.task # "none" => access.holder = access.task

-----------------------------------------------------------------------------
(* Properties of snapshot_top_processes (checked under SpecSampler and SpecChurn) *)

\* C13: whatever the processes, their raw readings, the core count and n >= 0,
\* the returned rows are in non-increasing order of normalized CPU (raw divided
\* by the core count, never below 0), there are at most min(n, population) of
\* them, one per process, and they are the n highest of the processes that were
\* read (all of them if fewer): no process left out has a strictly higher
\* normalized CPU than one that is shown.
C13_TopNByCpu ==
    s_pc = "done" =>
        LET c == IF cpus = 0 THEN 1 ELSE cpus
            norm(raw) == IF raw > 0 THEN raw \div c ELSE 0
            population == Cardinality({pid \in PIDS : procs[pid] # NoProc})
            shown == {s_rows[i].pid : i \in 1..Len(s_rows)}
        IN /\ \A i \in 1..(Len(s_rows) - 1) : s_rows[i].cpu >= s_rows[i + 1].cpu
           /\ Len(s_rows) <= s_n
           /\ Len(s_rows) <= population
           /\ Len(s_rows) = (IF s_n < Cardinality(s_read) THEN s_n ELSE Cardinality(s_read))
           /\ Cardinality(shown) = Len(s_rows)
           /\ \A i \in 1..Len(s_rows) :
                 /\ s_rows[i].cpu >= 0
                 /\ \E rec \in s_read : /\ rec.h.pid = s_rows[i].pid
                                        /\ s_rows[i].cpu = norm(rec.raw)
           /\ \A rec \in s_read : rec.h.pid \notin shown =>
                 \A i \in 1..Len(s_rows) : norm(rec.raw) <= s_rows[i].cpu

\* three processes read on four cores, one of them with a negative raw reading,
\* and the two highest returned, the higher first
C13_Witness ==
    /\ s_pc = "done"
    /\ cpus = 4
    /\ s_n = 2
    /\ Cardinality(s_read) = 3
    /\ \E rec \in s_read : rec.raw < 0
    /\ Len(s_rows) = 2
    /\ s_rows[1].cpu > s_rows[2].cpu
    /\ s_rows[2].cpu > 0

\* C14: a process that is gone or may not be read, at priming or at the
\* re-read, is skipped and never ends the sampling with an error; every
\* returned row is built from a handle that process_iter yielded and that was
\* primed before the wait and read again after it, so a process that appears
\* only during the wait has no row.
C14_ChurnIsSkipped ==
    /\ s_pc # "aborted"
    /\ s_primed \subseteq s_seen
    /\ s_pc = "done" =>
          \A i \in 1..Len(s_rows) :
               \E h \in s_primed :
                    /\ h \in s_seen
                    /\ h.pid = s_rows[i].pid
                    /\ h.name = s_rows[i].name
                    /\ \E rec \in s_read : rec.h = h

\* one process was denied at priming, one primed process exited during the
\* wait and another was started under its pid: neither has a row, the third
\* process has
C14_Witness ==
    /\ s_pc = "done"
    /\ s_seen \ s_primed # {}
    /\ \E h \in s_primed :
          /\ ~Running(h)
          /\ Alive(h.pid)
          /\ \A i \in 1..Len(s_rows) : s_rows[i].pid # h.pid
    /\ Len(s_rows) = 1

-----------------------------------------------------------------------------
(* More properties of the watchdog (checked under SpecWatchdog) *)

\* C15: when the post of an alert fails, the failure is discarded: run() goes
\* on (to its idle wait and the next cycle), _last_alert_ts is set to the time
\* the failed send ended, and the failed alert is not sent again: no alert
\* fires until the cooldown has passed since that time.
C15_FailedSendIsDiscarded ==
    /\ wd_pc \in {"read", "snapshot", "send", "idle"}
    /\ \A n \in 1..Len(sink) :
          sink[n].outcome = "Exception" =>
              /\ (pos = sink[n].cycle /\ Len(sink) = n) =>
                     (wd_pc \in {"idle", "read"} /\ last_alert_ts = sink[n].done)
              /\ \A k \in (sink[n].cycle + 1)..Len(cycles) :
                     /\ cycles[k].last >= sink[n].done
                     /\ cycles[k].now - sink[n].done <= cooldown => ~cycles[k].fired

\* a post failed; the next reading was over the threshold again and sent
\* nothing, and a later cycle, the cooldown over, sent the next alert
C15_Witness ==
    /\ webhook
    /\ \E n \in 1..Len(sink) :
          /\ sink[n].outcome = "Exception"
          /\ Len(sink) > n
          /\ Len(cycles) > sink[n].cycle
          /\ cycles[sink[n].cycle + 1].reading >= 90
          /\ ~cycles[sink[n].cycle + 1].fired

\* the time the alert call of cycle j returned
StampOf(j) == sink[CHOOSE n \in 1..Len(sink) : sink[n].cycle = j].done
\* the alert of cycle k has been handed to the sink by the time the cycle is over
Handed(k) == (k < pos \/ wd_pc \in {"idle", "read"}) => \E n \in 1..Len(sink) : sink[n].cycle = k

\* C17: a cycle whose reading is >= threshold, which is at least the second such
\* reading in a row and which comes more than the cooldown after the last alert
\* fires an alert itself.  So the first alert of a run fires at the second
\* over-threshold reading in a row, and while the readings stay over the
\* threshold the next alert fires in the first cycle that is more than the
\* cooldown after the previous alert, the counter never starting over.
C17_AlertWheneverDue ==
    /\ \A k \in 1..Len(cycles) :
          (/\ script[k] >= 90
           /\ RunLen(script, k) >= 2
           /\ cycles[k].now - StampBefore(k, Len(sink)) > cooldown)
          => (cycles[k].fired /\ Handed(k))
    /\ \A k \in 1..Len(cycles) :
          (RunLen(script, k) = 2 /\ \A j \in 1..(k - 1) : RunLen(script, j) < 2)
          => (cycles[k].fired /\ Handed(k))
    /\ \A j \in 1..Len(cycles), k \in 1..Len(cycles) :
          (/\ j < k
           /\ cycles[j].fired
           /\ \A i \in (j + 1)..k : script[i] >= 90
           /\ \A i \in (j + 1)..(k - 1) : cycles[i].now - StampOf(j) <= cooldown
           /\ cycles[k].now - StampOf(j) > cooldown)
          => (cycles[k].fired /\ cycles[k].counter = cycles[j].counter + (k - j) /\ Handed(k))

\* readings over the threshold throughout: the first alert at the second
\* reading, the next one two cycles later with the counter at four
C17_Witness ==
    /\ Len(sink) = 2
    /\ sink[1].cycle = 2
    /\ sink[2].cycle = 4
    /\ cycles[4].counter = 4
    /\ ~cycles[3].fired
    /\ wd_pc = "idle"

-----------------------------------------------------------------------------
(* Properties of the scheduling (checked under SpecLoop) *)

\* C16: safe_terminate_pid does not run on the event loop: at any moment of a
\* call (its wait for the process to exit included) at which the loop is not
\* held by the watchdog or the collector themselves, the watchdog, the
\* collector and the status display can take their next step.
C16_TerminateOffLoop ==
    (t_pc \in InCall /\ wd_pc # "reading" /\ rec_pc # "locked") =>
        /\ (wd_pc = "read" /\ pos < Len(script)) => ENABLED L_Enter
        /\ wd_pc = "idle" => ENABLED L_Idle
        /\ (rec_pc = "read" /\ appends < MaxLoopAppends) => ENABLED L_Acquire
        /\ rec_pc = "sleep" => ENABLED L_Sleep
        /\ ENABLED L_Status

\* safe_terminate_pid is in p.wait(); since it was called the watchdog has
\* completed a reading (the clock has moved), and the collector and the status
\* display have run as well
C16_Witness ==
    /\ t_pc = "wait"
    /\ wd_pc # "reading"
    /\ rec_pc # "locked"
    /\ clock > req.now
    /\ pos >= 1
    /\ appends >= 1
    /\ access.task = "status"

\* C18: while the watchdog is inside its one-second CPU read, the other tasks
\* can be scheduled as they can during its four-second idle: the collector can
\* go on to its append and the status display can be rebuilt.
C18_ReadIsSuspensionPoint ==
    wd_pc = "reading" =>
        /\ (rec_pc = "read" /\ appends < MaxLoopAppends) => ENABLED L_Acquire
        /\ rec_pc = "sleep" => ENABLED L_Sleep
        /\ ENABLED L_Status

-----------------------------------------------------------------------------
(* Properties of a termination and the processes around it
   (checked under SpecTerminate and SpecReuse) *)

\* C19: a call of safe_terminate_pid that returns ok = false has delivered
\* neither p.terminate() nor p.kill() to the process.
C19_FailureLeavesTargetUntouched ==
    (Returned /\ ~t_result.ok) =>
        \A i \in 1..Len(t_trace) :
             /\ t_trace[i] # [call |-> "terminate", out |-> "ok"]
             /\ t_trace[i] # [call |-> "kill", out |-> "ok"]

\* C20: the process a /terminate call signals is the one the caller's cached
\* row listed: it has the row's pid and the row's name.
C20_SignalsCachedProcess ==
    (req.outcome = "called" /\ t_p # NoHandle) =>
        \A s \in signals :
             (s.pid = t_p.pid /\ s.id = t_p.id) =>
                 (s.pid = req.target.pid /\ s.name = req.target.name)

=============================================================================
